---- MODULE Spec2Model ----
(***************************************************************************)
(* Model of vroom::Amount (src/src/structures/vroom/amount.h): the two     *)
(* AmountImpl variants (AmountEmpty, AmountDims), the wrapper Amount that  *)
(* owns one of them through a unique_ptr, and the free operators + and -.  *)
(* The heap is explicit so that cloning, resetting and releasing an owned  *)
(* variant are steps the checks can observe.  The build modelled is the    *)
(* one with assertions enabled (no NDEBUG).                                *)
(***************************************************************************)
EXTENDS Integers, Sequences, FiniteSets, TLC

(* --- bounds --- *)
\* width in bits of the scalar Capacity (a fixed-width integer)
CapacityBits == 1
\* largest number of dimensions of an AmountDims
MaxLen == 2

(* --- the scalar: Capacity, kept as its bit pattern --- *)
RECURSIVE Pow2(_)
Pow2(n) == IF n = 0 THEN 1 ELSE 2 * Pow2(n - 1)

Modulus == Pow2(CapacityBits)

Capacity == 0 .. (Modulus - 1)

\* the named wrapper objects of the program, in declaration order
SlotSeq == <<"a", "b">>
Slots == {SlotSeq[i] : i \in DOMAIN SlotSeq}
\* heap cells: one per wrapper and one for the clone in flight
Addrs == 1 .. (Cardinality(Slots) + 1)
\* the null pointer: a wrapper that is not constructed owns nothing
NoAddr == 0

VARIABLES m_impl, heap, is_signed, status, last

vars == <<m_impl, heap, is_signed, status, last>>

(* --- objects on the heap --- *)
FreeCell == [tag |-> "Free", elems |-> <<>>]
NewAmountEmpty == [tag |-> "Empty", elems |-> <<>>]
NewAmountDims(elems) == [tag |-> "Dims", elems |-> elems]

RECURSIVE SeqsOfLen(_)
SeqsOfLen(n) ==
  IF n = 0 THEN {<<>>}
  ELSE {Append(s, v) : s \in SeqsOfLen(n - 1), v \in Capacity}

CapSeqs == UNION {SeqsOfLen(n) : n \in 0 .. MaxLen}

\* AmountDims(std::size_t size) : elems(size, 0)
RECURSIVE ZeroSeq(_)
ZeroSeq(n) == IF n = 0 THEN <<>> ELSE Append(ZeroSeq(n - 1), 0)

(* --- scalar operations --- *)
\* the value a bit pattern stands for, two's complement when signed
Value(r) == IF is_signed /\ 2 * r >= Modulus THEN r - Modulus ELSE r
CapLess(x, y) == Value(x) < Value(y)
CapAdd(x, y) == (x + y) % Modulus
CapSub(x, y) == (x - y + Modulus) % Modulus
\* std::max(x, y) is (x < y) ? y : x
CapMax(x, y) == IF CapLess(x, y) THEN y ELSE x

(* --- AmountDims --- *)
\* the assertion written with <= instead of ==
Dims_SizeAssert_at_most(self, other) == Len(self.elems) <= Len(other.elems)

\* assert(elems.size() == static_cast<AmountDims const &>(other).elems.size())
Dims_SizeAssert(self, other) == Len(self.elems) = Len(other.elems)

\* the loop without its early return of false
RECURSIVE Dims_is_less_loop_no_greater(_, _, _, _)
Dims_is_less_loop_no_greater(e, o, i, last_rank) ==
  IF i < last_rank
  THEN IF CapLess(e[i], o[i]) THEN TRUE
       ELSE Dims_is_less_loop_no_greater(e, o, i + 1, last_rank)
  ELSE CapLess(e[last_rank], o[last_rank])

RECURSIVE Dims_is_less_loop(_, _, _, _)
Dims_is_less_loop(e, o, i, last_rank) ==
  IF i < last_rank
  THEN IF CapLess(e[i], o[i]) THEN TRUE
       ELSE IF CapLess(o[i], e[i]) THEN FALSE
       ELSE Dims_is_less_loop(e, o, i + 1, last_rank)
  ELSE CapLess(e[last_rank], o[last_rank])

\* per-dimension dominance in place of the lexicographic order
Dims_is_less_dominance(self, other) ==
  /\ self.elems # <<>>
  /\ \A i \in DOMAIN self.elems : CapLess(self.elems[i], other.elems[i])

Dims_is_less(self, other) ==
  IF self.elems = <<>> THEN FALSE
  ELSE Dims_is_less_loop(self.elems, other.elems, 1, Len(self.elems))

RECURSIVE Dims_is_equal_loop(_, _, _)
Dims_is_equal_loop(e, o, i) ==
  IF i <= Len(e)
  THEN IF e[i] # o[i] THEN FALSE ELSE Dims_is_equal_loop(e, o, i + 1)
  ELSE TRUE

Dims_is_equal(self, other) == Dims_is_equal_loop(self.elems, other.elems, 1)

RECURSIVE Dims_add_loop(_, _, _)
Dims_add_loop(e, o, i) ==
  IF i <= Len(e)
  THEN Dims_add_loop([e EXCEPT ![i] = CapAdd(e[i], o[i])], o, i + 1)
  ELSE e

Dims_add(self, other) == NewAmountDims(Dims_add_loop(self.elems, other.elems, 1))

RECURSIVE Dims_sub_loop(_, _, _)
Dims_sub_loop(e, o, i) ==
  IF i <= Len(e)
  THEN Dims_sub_loop([e EXCEPT ![i] = CapSub(e[i], o[i])], o, i + 1)
  ELSE e

\* the loop started one index too far
Dims_sub_from_second(self, other) ==
  NewAmountDims(Dims_sub_loop(self.elems, other.elems, 2))

Dims_sub(self, other) == NewAmountDims(Dims_sub_loop(self.elems, other.elems, 1))

RECURSIVE Dims_update_to_maxed_loop(_, _, _)
Dims_update_to_maxed_loop(e, o, i) ==
  IF i <= Len(e)
  THEN Dims_update_to_maxed_loop([e EXCEPT ![i] = CapMax(e[i], o[i])], o, i + 1)
  ELSE e

\* std::min in place of std::max
RECURSIVE Dims_update_to_min_loop(_, _, _)
Dims_update_to_min_loop(e, o, i) ==
  IF i <= Len(e)
  THEN Dims_update_to_min_loop(
         [e EXCEPT ![i] = IF CapLess(e[i], o[i]) THEN e[i] ELSE o[i]], o, i + 1)
  ELSE e

Dims_update_to_mined(self, other) ==
  NewAmountDims(Dims_update_to_min_loop(self.elems, other.elems, 1))

Dims_update_to_maxed(self, other) ==
  NewAmountDims(Dims_update_to_maxed_loop(self.elems, other.elems, 1))

\* std::fill(elems.begin(), elems.end(), 0)
RECURSIVE Fill(_, _, _)
Fill(e, i, v) == IF i <= Len(e) THEN Fill([e EXCEPT ![i] = v], i + 1, v) ELSE e

\* set_zero that fills nothing
Dims_set_zero_noop(self) == self

Dims_set_zero(self) == NewAmountDims(Fill(self.elems, 1, 0))

\* clone that default-constructs instead of copying *this
Dims_clone_default(self) == NewAmountDims(<<>>)

Dims_clone(self) == NewAmountDims(self.elems)

(* --- AmountEmpty --- *)
Empty_is_less(self, other) == FALSE
Empty_is_equal(self, other) == TRUE
Empty_add(self, other) == self
Empty_sub(self, other) == self
Empty_update_to_maxed(self, other) == self
Empty_set_zero(self) == self
\* clone of the wrong class
Empty_clone_as_dims(self) == NewAmountDims(<<>>)
Empty_clone(self) == NewAmountEmpty

(* --- virtual dispatch on the owned variant --- *)
BinaryMethods == {"is_less", "is_equal", "add", "sub", "update_to_maxed"}
Comparators == {"is_less", "is_equal"}

\* what a call returns normally: the new contents of self and the result
Done(self, ret) == [status |-> "ok", self |-> self, ret |-> ret]

Dims_call(method, self, other) ==
  CASE method = "is_less" -> Done(self, Dims_is_less(self, other))
    [] method = "is_equal" -> Done(self, Dims_is_equal(self, other))
    [] method = "add" -> Done(Dims_add(self, other), FALSE)
    [] method = "sub" -> Done(Dims_sub(self, other), FALSE)
    [] method = "update_to_maxed" -> Done(Dims_update_to_maxed(self, other), FALSE)

Empty_call(method, self, other) ==
  CASE method = "is_less" -> Done(self, Empty_is_less(self, other))
    [] method = "is_equal" -> Done(self, Empty_is_equal(self, other))
    [] method = "add" -> Done(Empty_add(self, other), FALSE)
    [] method = "sub" -> Done(Empty_sub(self, other), FALSE)
    [] method = "update_to_maxed" -> Done(Empty_update_to_maxed(self, other), FALSE)

\* static_cast<AmountDims const &>(other) on an AmountEmpty: the size read
\* is garbage, so the assertion fails or passes; when it passes the values
\* read are garbage too
Dims_call_bad_cast(method, self) ==
  {[status |-> "assert_failed", self |-> self, ret |-> FALSE]}
  \cup
  (IF method \in Comparators
   THEN {[status |-> "undefined", self |-> self, ret |-> r] : r \in BOOLEAN}
   ELSE {[status |-> "undefined", self |-> NewAmountDims(g), ret |-> FALSE] :
           g \in SeqsOfLen(Len(self.elems))})

\* the outcomes of self.method(other) through the AmountImpl interface
Impl_call(method, self, other) ==
  IF self.tag = "Empty" THEN {Empty_call(method, self, other)}
  ELSE IF other.tag # "Dims" THEN Dims_call_bad_cast(method, self)
  ELSE IF ~Dims_SizeAssert(self, other)
  THEN {[status |-> "assert_failed", self |-> self, ret |-> FALSE]}
  ELSE {Dims_call(method, self, other)}

Impl_set_zero(self) ==
  IF self.tag = "Dims" THEN Dims_set_zero(self) ELSE Empty_set_zero(self)

Impl_clone(self) ==
  IF self.tag = "Dims" THEN Dims_clone(self) ELSE Empty_clone(self)

(* --- the heap --- *)
\* operator new: the lowest free cell
Alloc(h) ==
  CHOOSE p \in Addrs : h[p] = FreeCell /\ \A q \in Addrs : q < p => h[q] # FreeCell

HasFree(h) == \E p \in Addrs : h[p] = FreeCell

\* clone that returns this
CloneAddr_shared(h, p) == p

\* clone() returns a pointer to a newly allocated object
CloneAddr(h, p) == Alloc(h)

HeapAfterClone(h, p) == [h EXCEPT ![CloneAddr(h, p)] = Impl_clone(h[p])]

\* unique_ptr releasing the object it owns
Delete(h, p) == IF p = NoAddr THEN h ELSE [h EXCEPT ![p] = FreeCell]

\* Addresses are opaque to the program: it never compares, orders or prints
\* them.  The heap is therefore kept up to a renaming of its cells: the
\* cells owned by wrappers come first, in the declaration order of their
\* owners, then a cell nobody owns, then the free cells.
CellKey(mi, h, p) ==
  IF \E i \in DOMAIN SlotSeq : mi[SlotSeq[i]] = p
  THEN CHOOSE i \in DOMAIN SlotSeq :
         /\ mi[SlotSeq[i]] = p
         /\ \A j \in DOMAIN SlotSeq : mi[SlotSeq[j]] = p => i <= j
  ELSE IF h[p] # FreeCell THEN Len(SlotSeq) + 1
  ELSE Len(SlotSeq) + 2

\* the new name of cell p: its rank by key, ties broken by the old name
Renaming(mi, h, p) ==
  1 + Cardinality({q \in Addrs :
        \/ CellKey(mi, h, q) < CellKey(mi, h, p)
        \/ CellKey(mi, h, q) = CellKey(mi, h, p) /\ q < p})

RenamedImpl(mi, h) ==
  [x \in Slots |-> IF mi[x] = NoAddr THEN NoAddr ELSE Renaming(mi, h, mi[x])]

RenamedHeap(mi, h) ==
  [p \in Addrs |-> h[CHOOSE q \in Addrs : Renaming(mi, h, q) = p]]

(* --- reading the state --- *)
Live(x) == m_impl[x] # NoAddr
Obj(x) == heap[m_impl[x]]
LiveSlots == {x \in Slots : Live(x)}

Call(op, self, other, retB, retObj) ==
  [op |-> op, self |-> self, other |-> other, retB |-> retB, retObj |-> retObj]

(* --- the wrapper: construction, destruction, copying --- *)
\* last is the call the program has made and not yet returned from, with
\* what it gave back; between calls it is NoCall
NoCall == Call("none", "a", "a", FALSE, FreeCell)

\* the program is running and is between two calls
Ready == status = "ok" /\ last = NoCall

Init ==
  /\ m_impl = [x \in Slots |-> NoAddr]
  /\ heap = [p \in Addrs |-> FreeCell]
  /\ is_signed \in BOOLEAN
  /\ Ready
  /\ last = NoCall

\* a wrapper is built around a newly allocated variant
Construct(x, impl, op) ==
  /\ Ready
  /\ ~Live(x)
  /\ HasFree(heap)
  /\ LET mi == [m_impl EXCEPT ![x] = Alloc(heap)]
         h == [heap EXCEPT ![Alloc(heap)] = impl]
     IN /\ m_impl' = RenamedImpl(mi, h)
        /\ heap' = RenamedHeap(mi, h)
  /\ last' = Call(op, x, x, FALSE, FreeCell)
  /\ UNCHANGED <<is_signed, status>>

\* Amount() : m_impl(std::make_unique<AmountEmpty>())
ConstructDefault(x) == Construct(x, NewAmountEmpty, "construct_default")

\* Amount(std::make_unique<AmountDims>(size))
ConstructSize(x, size) == Construct(x, NewAmountDims(ZeroSeq(size)), "construct_size")

\* Amount(std::make_unique<AmountDims>(elems))
ConstructElems(x, elems) == Construct(x, NewAmountDims(elems), "construct_elems")

\* the wrapper goes out of scope: its unique_ptr releases the variant
Destroy(x) ==
  /\ Ready
  /\ Live(x)
  /\ LET mi == [m_impl EXCEPT ![x] = NoAddr]
         h == Delete(heap, m_impl[x])
     IN /\ m_impl' = RenamedImpl(mi, h)
        /\ heap' = RenamedHeap(mi, h)
  /\ last' = Call("destroy", x, x, FALSE, FreeCell)
  /\ UNCHANGED <<is_signed, status>>

\* Amount(Amount const & other) : m_impl(other.m_impl->clone())
CopyConstruct(x, other) ==
  /\ Ready
  /\ ~Live(x)
  /\ Live(other)
  /\ HasFree(heap)
  /\ LET mi == [m_impl EXCEPT ![x] = CloneAddr(heap, m_impl[other])]
         h == HeapAfterClone(heap, m_impl[other])
     IN /\ m_impl' = RenamedImpl(mi, h)
        /\ heap' = RenamedHeap(mi, h)
  /\ last' = Call("copy_construct", x, other, FALSE, FreeCell)
  /\ UNCHANGED <<is_signed, status>>

\* m_impl.reset(other.m_impl->clone()): the clone is made first, then the
\* pointer is replaced and the variant owned before is released
Assign(x, other) ==
  /\ Ready
  /\ Live(x)
  /\ Live(other)
  /\ HasFree(heap)
  /\ LET mi == [m_impl EXCEPT ![x] = CloneAddr(heap, m_impl[other])]
         h == Delete(HeapAfterClone(heap, m_impl[other]), m_impl[x])
     IN /\ m_impl' = RenamedImpl(mi, h)
        /\ heap' = RenamedHeap(mi, h)
  /\ last' = Call("assign", x, other, FALSE, FreeCell)
  /\ UNCHANGED <<is_signed, status>>

(* --- the wrapper: operators that delegate to the variant --- *)
\* x.m_impl->method(*other.m_impl) for a method that writes self
Mutate(x, other, method, op) ==
  /\ Ready
  /\ Live(x)
  /\ Live(other)
  /\ \E o \in Impl_call(method, Obj(x), Obj(other)) :
       /\ heap' = [heap EXCEPT ![m_impl[x]] = o.self]
       /\ status' = o.status
  /\ last' = Call(op, x, other, FALSE, FreeCell)
  /\ UNCHANGED <<m_impl, is_signed>>

PlusEq(x, other) == Mutate(x, other, "add", "plus_eq")
MinusEq(x, other) == Mutate(x, other, "sub", "minus_eq")
UpdateToMaxed(x, other) == Mutate(x, other, "update_to_maxed", "update_to_maxed")

\* a const member that returns what the outcome o of the variant's call says
Compare(x, other, outcomes, op) ==
  /\ Ready
  /\ Live(x)
  /\ Live(other)
  /\ \E o \in outcomes :
       /\ status' = o.status
       /\ last' = Call(op, x, other, o.ret, FreeCell)
  /\ UNCHANGED <<m_impl, heap, is_signed>>

\* m_impl->is_less(*other.m_impl) || m_impl->is_equal(*other.m_impl)
Amount_le(self, other) ==
  UNION {IF o.status = "ok" /\ ~o.ret
         THEN Impl_call("is_equal", self, other)
         ELSE {o} : o \in Impl_call("is_less", self, other)}

Eq(x, other) == Compare(x, other, Impl_call("is_equal", Obj(x), Obj(other)), "eq")
Le(x, other) == Compare(x, other, Amount_le(Obj(x), Obj(other)), "le")
Lt(x, other) == Compare(x, other, Impl_call("is_less", Obj(x), Obj(other)), "lt")

(* --- the wrapper: operations that return a new wrapper --- *)
\* auto copy(*this); copy.m_impl->set_zero(); return copy;
\* the returned wrapper is a temporary, released once its value is taken
GetZero(x) ==
  /\ Ready
  /\ Live(x)
  /\ HasFree(heap)
  /\ LET copy == CloneAddr(heap, m_impl[x])
         h1 == HeapAfterClone(heap, m_impl[x])
         h2 == [h1 EXCEPT ![copy] = Impl_set_zero(h1[copy])]
     IN /\ last' = Call("get_zero", x, x, FALSE, h2[copy])
        /\ heap' = Delete(h2, copy)
  /\ UNCHANGED <<m_impl, is_signed, status>>

\* auto result(lhs); result (+= or -=) rhs; return result;
\* when the variant's assertion fails the program stops with result alive
Combine(lhs, rhs, method, op) ==
  /\ Ready
  /\ Live(lhs)
  /\ Live(rhs)
  /\ HasFree(heap)
  /\ LET result == CloneAddr(heap, m_impl[lhs])
         h1 == HeapAfterClone(heap, m_impl[lhs])
     IN \E o \in Impl_call(method, h1[result], h1[m_impl[rhs]]) :
          LET h2 == [h1 EXCEPT ![result] = o.self]
          IN /\ status' = o.status
             /\ IF o.status = "ok"
                THEN /\ last' = Call(op, lhs, rhs, FALSE, h2[result])
                     /\ heap' = Delete(h2, result)
                ELSE /\ last' = Call(op, lhs, rhs, FALSE, FreeCell)
                     /\ heap' = h2
  /\ UNCHANGED <<m_impl, is_signed>>

Plus(lhs, rhs) == Combine(lhs, rhs, "add", "plus")
Minus(lhs, rhs) == Combine(lhs, rhs, "sub", "minus")

\* the call returns to the caller, which goes on with the program
Return ==
  /\ status = "ok"
  /\ last # NoCall
  /\ last' = NoCall
  /\ UNCHANGED <<m_impl, heap, is_signed, status>>

Next ==
  \/ \E x \in Slots : ConstructDefault(x)
  \/ \E x \in Slots, size \in 0 .. MaxLen : ConstructSize(x, size)
  \/ \E x \in Slots, elems \in CapSeqs : ConstructElems(x, elems)
  \/ \E x \in Slots : Destroy(x)
  \/ \E x, other \in Slots : CopyConstruct(x, other)
  \/ \E x, other \in Slots : Assign(x, other)
  \/ \E x, other \in Slots : PlusEq(x, other)
  \/ \E x, other \in Slots : MinusEq(x, other)
  \/ \E x, other \in Slots : UpdateToMaxed(x, other)
  \/ \E x, other \in Slots : Eq(x, other)
  \/ \E x, other \in Slots : Le(x, other)
  \/ \E x, other \in Slots : Lt(x, other)
  \/ \E x \in Slots : GetZero(x)
  \/ \E x, other \in Slots : Plus(x, other)
  \/ \E x, other \in Slots : Minus(x, other)
  \/ Return

Spec == Init /\ [][Next]_vars

(* --- vocabulary of the properties --- *)
Shape(o) == <<o.tag, Len(o.elems)>>
SameShape(s, o) == Shape(s) = Shape(o)

\* every object of the shape of o
ObjsLike(o) ==
  IF o.tag = "Dims" THEN {NewAmountDims(e) : e \in SeqsOfLen(Len(o.elems))}
  ELSE {NewAmountEmpty}

\* the step is the call of op on wrapper x with argument other
Calls(op, x, other) ==
  last = NoCall /\ last'.op = op /\ last'.self = x /\ last'.other = other

\* the one outcome of a call between operands of one shape
Outcome(method, s, o) == CHOOSE r \in Impl_call(method, s, o) : TRUE
LessVal(s, o) == Outcome("is_less", s, o).ret
EqualVal(s, o) == Outcome("is_equal", s, o).ret
LeVal(s, o) == \E r \in Amount_le(s, o) : r.status = "ok" /\ r.ret

\* the wrapper operators that delegate to a binary method of the variant
DelegatingOps == {"eq", "le", "lt", "plus_eq", "minus_eq", "update_to_maxed"}
MutatingOps == {"plus_eq", "minus_eq", "update_to_maxed", "assign"}

(* --- C1 --- *)
NoAlias ==
  \A x, y \in Slots : x # y /\ Live(x) /\ Live(y) => m_impl[x] # m_impl[y]

CopyStep ==
  \A x, other \in Slots :
    Calls("copy_construct", x, other) \/ Calls("assign", x, other) =>
      /\ Live(x)' /\ Live(other)'
      /\ Obj(x)' = Obj(other)
      /\ Obj(other)' = Obj(other)
      /\ EqualVal(Obj(x)', Obj(other)')
      /\ status' = "ok"

FrameStep ==
  \A op \in MutatingOps : \A x, other, y \in Slots :
    Calls(op, x, other) /\ y # x /\ Live(y) => Live(y)' /\ Obj(y)' = Obj(y)

\* C1: a copy-constructed or copy-assigned wrapper equals its source and
\* shares no storage with it: no two wrappers ever own the same cell, and a
\* mutating operation on one wrapper (+=, -=, update_to_maxed, copy
\* assignment) leaves the variant and every value of the other as they
\* were; a = a leaves a as it was.
C1_CopiesAreIndependent == []NoAlias /\ [][CopyStep /\ FrameStep]_vars

\* a was assigned from b, a Dimensioned amount with a non-zero value
C1_Witness ==
  /\ last.op = "assign" /\ last.self = "a" /\ last.other = "b"
  /\ Obj("a") = Obj("b")
  /\ Obj("b").tag = "Dims"
  /\ \E i \in DOMAIN Obj("b").elems : Obj("b").elems[i] # 0

(* --- C2 --- *)
\* C2 as stated: no operation, copy assignment included, changes the
\* variant or the length of a wrapper.
C2_NeverRetagged ==
  [][\A x \in Slots : Live(x) /\ Live(x)' => Shape(Obj(x)') = Shape(Obj(x))]_vars

\* C2 amended: +=, -=, update_to_maxed, get_zero, ==, <=, <<, free + and -
\* leave the variant and the length of every wrapper as they were; copy
\* assignment gives its target the variant and the length of its source.
C2_RetaggedOnlyByAssign ==
  [][\A x \in Slots : Live(x) /\ Live(x)' =>
       \/ Shape(Obj(x)') = Shape(Obj(x))
       \/ \E other \in Slots :
            Calls("assign", x, other) /\ Shape(Obj(x)') = Shape(Obj(other))]_vars

\* a has been assigned from b, a Dimensioned amount of MaxLen dimensions
C2_Witness ==
  /\ last.op = "assign" /\ last.self = "a" /\ last.other = "b"
  /\ Obj("a").tag = "Dims" /\ Len(Obj("a").elems) = MaxLen

(* --- C3 --- *)
\* C3 as stated: a delegating operator called on an Empty and a
\* Dimensioned operand, in either order, ends in the failed assertion.
C3_MixedVariantsAssert ==
  [][\A op \in DelegatingOps : \A x, other \in Slots :
       Calls(op, x, other) /\ Obj(x).tag # Obj(other).tag =>
         status' = "assert_failed"]_vars

(* --- C4 --- *)
\* C4: a delegating operator called on two Dimensioned operands of
\* different lengths ends in the failed assertion with no value read or
\* written: the heap is as it was and nothing is returned.
C4_LengthMismatchAsserts ==
  [][\A op \in DelegatingOps : \A x, other \in Slots :
       Calls(op, x, other) /\ Obj(x).tag = "Dims" /\ Obj(other).tag = "Dims"
         /\ Len(Obj(x).elems) # Len(Obj(other).elems) =>
         /\ status' = "assert_failed"
         /\ heap' = heap /\ m_impl' = m_impl
         /\ last'.retB = FALSE /\ last'.retObj = FreeCell]_vars

\* a += b was called with a of one dimension and b of two
C4_Witness ==
  /\ status = "assert_failed"
  /\ last.op = "plus_eq" /\ last.self = "a" /\ last.other = "b"
  /\ Obj("a").tag = "Dims" /\ Obj("b").tag = "Dims"
  /\ Len(Obj("a").elems) = 1 /\ Len(Obj("b").elems) = 2

(* --- C5 --- *)
LeIsLessOrEqual ==
  last.op = "le" /\ status = "ok" =>
    last.retB = (LessVal(Obj(last.self), Obj(last.other))
                   \/ EqualVal(Obj(last.self), Obj(last.other)))

\* what a <= b returned, set against every third amount z of their shape
LeTotalPreorder ==
  last.op = "le" /\ status = "ok" /\ SameShape(Obj(last.self), Obj(last.other)) =>
    LET a == Obj(last.self)
        b == Obj(last.other)
    IN /\ LeVal(a, a)
       /\ last.retB \/ LeVal(b, a)
       /\ \A z \in ObjsLike(a) :
            /\ last.retB /\ LeVal(b, z) => LeVal(a, z)
            /\ LeVal(a, z) /\ LeVal(z, b) => last.retB
            /\ LeVal(z, a) /\ last.retB => LeVal(z, b)

\* C5: a <= b returns is_less(a, b) or is_equal(a, b), and over the amounts
\* of one shape <= is reflexive, total and transitive.
C5_LeIsTotalPreorder == LeIsLessOrEqual /\ LeTotalPreorder

\* a <= b returned true for two different amounts of two dimensions
C5_Witness ==
  /\ status = "ok" /\ last.op = "le" /\ last.self = "a" /\ last.other = "b"
  /\ last.retB
  /\ Obj("a").tag = "Dims" /\ Obj("b").tag = "Dims"
  /\ Len(Obj("a").elems) = 2 /\ Len(Obj("b").elems) = 2
  /\ Obj("a") # Obj("b")

(* --- C6 --- *)
\* the reference order: the first index at which s and t differ decides
LexLess(s, t) ==
  \E i \in DOMAIN s :
    /\ CapLess(s[i], t[i])
    /\ \A j \in DOMAIN s : j < i => s[j] = t[j]

IsLessIsLexicographic ==
  \A x, y \in LiveSlots :
    Obj(x).tag = "Dims" /\ SameShape(Obj(x), Obj(y)) =>
      /\ Dims_is_less(Obj(x), Obj(y)) = LexLess(Obj(x).elems, Obj(y).elems)
      /\ ~(Dims_is_less(Obj(x), Obj(y)) /\ Dims_is_equal(Obj(x), Obj(y)))
      /\ ~(Dims_is_less(Obj(x), Obj(y)) /\ Dims_is_less(Obj(y), Obj(x)))
      /\ Obj(x).elems = <<>> => ~Dims_is_less(Obj(x), Obj(y))

LtIsLexicographic ==
  /\ last.op = "lt" /\ status = "ok"
  /\ Obj(last.self).tag = "Dims" /\ Obj(last.other).tag = "Dims"
  => last.retB = LexLess(Obj(last.self).elems, Obj(last.other).elems)

\* C6: for Dimensioned amounts of one length is_less, and the operator <<
\* that returns it, is the lexicographic order: the first index at which
\* the two differ decides, and the result is false when none differs or
\* the length is 0; is_less(a, b) excludes is_equal(a, b) and is_less(b, a).
C6_IsLessIsLexicographic == IsLessIsLexicographic /\ LtIsLexicographic

\* a << b returned true on the first dimension although the last one of a
\* is the greater
C6_Witness ==
  /\ status = "ok" /\ last.op = "lt" /\ last.self = "a" /\ last.other = "b"
  /\ last.retB
  /\ Obj("a").tag = "Dims" /\ Obj("b").tag = "Dims"
  /\ Len(Obj("a").elems) = 2 /\ Len(Obj("b").elems) = 2
  /\ CapLess(Obj("a").elems[1], Obj("b").elems[1])
  /\ CapLess(Obj("b").elems[2], Obj("a").elems[2])

(* --- C7 --- *)
\* the value of lhs + rhs and of lhs - rhs for operands of one shape
SumOf(lhs, rhs) == Outcome("add", Impl_clone(lhs), rhs).self
DiffOf(lhs, rhs) == Outcome("sub", Impl_clone(lhs), rhs).self

RoundTrip ==
  \A x, y \in LiveSlots :
    SameShape(Obj(x), Obj(y)) =>
      EqualVal(DiffOf(SumOf(Obj(x), Obj(y)), Obj(y)), Obj(x))

CombineStep ==
  \A x, y \in Slots :
    (Calls("plus", x, y) \/ Calls("minus", x, y)) /\ SameShape(Obj(x), Obj(y)) =>
      /\ status' = "ok"
      /\ heap' = heap /\ m_impl' = m_impl
      /\ Calls("plus", x, y) => EqualVal(DiffOf(last'.retObj, Obj(y)), Obj(x))
      /\ Calls("minus", x, y) => EqualVal(SumOf(last'.retObj, Obj(y)), Obj(x))

\* C7: for amounts a and b of one shape (a + b) - b == a, also where a sum
\* wraps around the scalar's width, and + and - leave a and b as they were.
C7_RoundTrip == []RoundTrip /\ [][CombineStep]_vars

\* a + b was evaluated and one of its dimensions wrapped around
C7_Witness ==
  /\ status = "ok" /\ last.op = "plus" /\ last.self = "a" /\ last.other = "b"
  /\ Obj("a").tag = "Dims" /\ SameShape(Obj("a"), Obj("b"))
  /\ \E i \in DOMAIN Obj("a").elems :
       Value(last.retObj.elems[i])
         # Value(Obj("a").elems[i]) + Value(Obj("b").elems[i])

(* --- C8 --- *)
AllZero(o) == \A i \in DOMAIN o.elems : o.elems[i] = 0

GetZeroStep ==
  \A x \in Slots :
    Calls("get_zero", x, x) =>
      /\ status' = "ok"
      /\ Shape(last'.retObj) = Shape(Obj(x))
      /\ AllZero(last'.retObj)
      /\ heap' = heap /\ m_impl' = m_impl
      /\ EqualVal(SumOf(last'.retObj, Obj(x)), Obj(x))

\* C8: a.get_zero() returns an amount of the variant and the length of a
\* whose every dimension is zero, leaves a as it was, and
\* a.get_zero() + a == a.
C8_GetZero == [][GetZeroStep]_vars

\* get_zero was called on a Dimensioned amount with a non-zero value
C8_Witness ==
  /\ status = "ok" /\ last.op = "get_zero" /\ last.self = "a"
  /\ Obj("a").tag = "Dims" /\ ~AllZero(Obj("a"))
  /\ last.retObj.tag = "Dims" /\ AllZero(last.retObj)

(* --- C9 --- *)
\* the greater of two scalars by their values
MaxOf(v, w) == IF Value(v) >= Value(w) THEN v ELSE w

UpdateToMaxedStep ==
  \A x, other \in Slots :
    Calls("update_to_maxed", x, other) /\ SameShape(Obj(x), Obj(other)) =>
      /\ status' = "ok"
      /\ m_impl' = m_impl
      /\ Shape(Obj(x)') = Shape(Obj(x))
      /\ \A i \in DOMAIN Obj(x).elems :
           Obj(x)'.elems[i] = MaxOf(Obj(x).elems[i], Obj(other).elems[i])
      /\ x # other => Obj(other)' = Obj(other)
      /\ x = other => Obj(x)' = Obj(x)
      /\ Outcome("update_to_maxed", Obj(x)', Obj(other)').self = Obj(x)'

\* C9: for a and b of one shape a.update_to_maxed(b) makes every dimension
\* of a the maximum of what a and b held and leaves b as it was;
\* a.update_to_maxed(a) leaves a as it was, and a second
\* a.update_to_maxed(b) changes nothing more.
C9_UpdateToMaxed == [][UpdateToMaxedStep]_vars

\* a.update_to_maxed(b) kept one dimension of a and took one from b
C9_Witness ==
  /\ status = "ok" /\ last.op = "update_to_maxed"
  /\ last.self = "a" /\ last.other = "b"
  /\ Obj("a").tag = "Dims" /\ SameShape(Obj("a"), Obj("b"))
  /\ \E i \in DOMAIN Obj("a").elems : Value(Obj("a").elems[i]) > Value(Obj("b").elems[i])
  /\ \E i \in DOMAIN Obj("a").elems :
       Obj("a").elems[i] = Obj("b").elems[i] /\ Obj("a").elems[i] # 0

(* --- C10 --- *)
EmptyOps ==
  {"construct_default", "destroy", "copy_construct", "assign", "plus_eq",
   "minus_eq", "update_to_maxed", "eq", "le", "lt", "get_zero", "plus", "minus"}

AllEmpty == \A x \in LiveSlots : Obj(x) = NewAmountEmpty

DefaultIsEmpty ==
  last.op = "construct_default" => Obj(last.self) = NewAmountEmpty

EmptyStep ==
  \A op \in EmptyOps : \A x, other \in Slots :
    Calls(op, x, other) /\ AllEmpty =>
      /\ status' = "ok"
      /\ AllEmpty'
      /\ op \in {"get_zero", "plus", "minus"} => last'.retObj = NewAmountEmpty
      /\ op \in {"eq", "le"} => last'.retB
      /\ op = "lt" => ~last'.retB

EmptyCompare ==
  \A x, y \in LiveSlots :
    Obj(x).tag = "Empty" /\ Obj(y).tag = "Empty" =>
      /\ EqualVal(Obj(x), Obj(y))
      /\ ~LessVal(Obj(x), Obj(y)) /\ ~LessVal(Obj(y), Obj(x))
      /\ LeVal(Obj(x), Obj(y)) /\ LeVal(Obj(y), Obj(x))

\* C10: a default-constructed amount is Empty; add, sub, update_to_maxed,
\* get_zero, copying and free + and - applied to Empty amounts give Empty
\* amounts; two Empty amounts are equal, neither is less than the other,
\* and each is <= the other.
C10_EmptyClosure == [](DefaultIsEmpty /\ EmptyCompare) /\ [][EmptyStep]_vars

\* a <= b returned true for two Empty amounts
C10_Witness ==
  /\ status = "ok" /\ last.op = "le" /\ last.self = "a" /\ last.other = "b"
  /\ last.retB
  /\ Obj("a") = NewAmountEmpty /\ Obj("b") = NewAmountEmpty

====
